---- MODULE Spec2Model ----
(***************************************************************************)
(* Model of the cycle-count application: the assignment store              *)
(* (utils/assignments.py), the submission log (utils/storage.py) and the   *)
(* handlers of app.py that drive them.                                     *)
(*                                                                         *)
(* Time is counted in ticks, TicksPerSecond ticks to the second, so that   *)
(* int(timestamp()) (whole seconds) and datetime values (sub-second) are   *)
(* told apart.  A Python dict is a sequence of entries [k, v] in insertion *)
(* order.  A CSV file is a sequence of lines, each a sequence of cells.    *)
(***************************************************************************)
EXTENDS Integers, Sequences, FiniteSets, TLC

VARIABLES
    ASSIGNMENTS,   \* assignments.py: the in-memory table, an ordered dict
    assignFile,    \* data/assignments.json as last written by save_all
    now,           \* the clock read by datetime.utcnow(), in ticks
    created,       \* history: the ids returned by create_assignment, in call order
    pc,            \* per session: position of its tab_my_assignments run
    sess,          \* per session: the locals user, aid, a of that run (kept when it is done)
    subFile,       \* data/submissions.csv
    appended,      \* history: the rows passed to append_submission, in call order
    lastRead,      \* the list returned by the last read_submissions
    lastOp,        \* the last operation that ran, the id it was about, and whether
                   \* the operation before it was the same one on the same id
    call,          \* the arguments df, mapping, lookup of a get_expected_qty call
    result,        \* what that call returned
    dash,          \* the frames tab_dashboard computed in its last run
    mapFile,       \* data/mapping.json as last written by save_mapping
    tmpFile,       \* the temporary file of a migration in progress
    mig            \* the position of an ensure_data_dir call run step by step

storeVars == <<ASSIGNMENTS, assignFile, now, created>>
sessVars  == <<pc, sess>>
logVars   == <<subFile, appended, lastRead>>
viewVars  == <<call, result, dash, mapFile, tmpFile, mig>>
vars      == <<ASSIGNMENTS, assignFile, now, created, pc, sess,
               subFile, appended, lastRead, lastOp, call, result, dash, mapFile,
               tmpFile, mig>>

----------------------------------------------------------------------------
(* Bounds of the model *)

TicksPerSecond == 2     \* clock resolution below one second
MaxNow         == 2     \* ticks the clock may advance in single steps
MaxDrift       == 1     \* ticks the clock may advance between two reads in one call
MaxCreates     == 2     \* create_assignment calls in one behaviour
MaxAssign      == 1     \* assignments created through the form in one behaviour
MaxAppends     == 2     \* direct append_submission calls in one behaviour
MaxOldRows     == 2     \* data rows of a submissions file found at start
MaxStored      == 2     \* records of an assignments file found at start
MaxInvRows     == 2     \* rows of the inventory table given to get_expected_qty
MaxQty         == 70    \* largest quantity written in an inventory cell

(* Program constants *)

LOCK_MINUTES == 20
LockTicks    == LOCK_MINUTES * 60 * TicksPerSecond

Users     == {"Alex", "Aldo"}
Pallets   == {"P100", "P200"}
Locations == {"A-12"}
Qtys      == {50}
Sessions  == {"s1", "s2"}

----------------------------------------------------------------------------
(* Python dict as an ordered sequence of entries *)

Range(s) == {s[i] : i \in 1..Len(s)}

Keys(d) == {d[i].k : i \in 1..Len(d)}

HasKey(d, k) == \E i \in 1..Len(d) : d[i].k = k

IndexOf(d, k) == CHOOSE i \in 1..Len(d) : d[i].k = k

DictGet(d, k) == d[IndexOf(d, k)].v

\* d[k] = v: an existing key keeps its position, a new key goes last
DictSet(d, k, v) ==
    IF HasKey(d, k)
    THEN [d EXCEPT ![IndexOf(d, k)] = [k |-> k, v |-> v]]
    ELSE Append(d, [k |-> k, v |-> v])

\* str.strip on the texts the program is given
Strip(text) ==
    CASE text = " P100 " -> "P100"
      [] text = " "      -> ""
      [] OTHER           -> text

RECURSIVE SelectEntries(_, _, _)
SelectEntries(d, user, i) ==
    IF i > Len(d) THEN << >>
    ELSE IF d[i].v.user = user /\ d[i].v.status = "assigned"
         THEN << d[i] >> \o SelectEntries(d, user, i + 1)
         ELSE SelectEntries(d, user, i + 1)

----------------------------------------------------------------------------
(* utils/storage.py: the submission log *)

REQUIRED_FIELDS ==
    << "timestamp", "user", "location", "sku", "lot",
       "expected_qty", "counted_qty", "issue_type", "actual_pallet", "note" >>

\* The value csv.DictReader gives a field whose cell is missing from a short line
NONE == "<None>"

NoFile == [exists |-> FALSE, lines |-> << >>]

CsvFile(lines) == [exists |-> TRUE, lines |-> lines]

\* dict.get(k, "")
Get(row, k) == IF k \in DOMAIN row THEN row[k] ELSE ""

\* csv.writer writes None as the empty string
CellOf(v) == IF v = NONE THEN "" ELSE v

\* csv.DictWriter(fieldnames=REQUIRED_FIELDS).writerow({k: row.get(k, "")})
WriteRow(row) == [i \in 1..Len(REQUIRED_FIELDS) |-> CellOf(Get(row, REQUIRED_FIELDS[i]))]

\* A cell of bytes that are not UTF-8: reading the file raises
BadBytes == "<bad bytes>"

\* The text reader decodes a small file in one piece, so bad bytes on any
\* line make the first read raise
Undecodable(f) == \E i \in 1..Len(f.lines) : BadBytes \in Range(f.lines[i])

\* _read_header as it would be without its except clause
_read_header_NoExcept(f) == IF Len(f.lines) = 0 THEN << >> ELSE f.lines[1]

\* _read_header: the first csv row, or [] when there is none, it is blank or
\* reading raises
_read_header(f) ==
    IF Len(f.lines) = 0 \/ Undecodable(f) THEN << >> ELSE f.lines[1]

LastIndex(header, k) ==
    CHOOSE i \in 1..Len(header) :
        header[i] = k /\ \A j \in (i + 1)..Len(header) : header[j] /= k

\* One csv.DictReader row: dict(zip(fieldnames, line)), a repeated name taking
\* its last cell, a name beyond the end of a short line taking None
DictRow(header, line) ==
    [k \in Range(header) |->
        IF LastIndex(header, k) <= Len(line) THEN line[LastIndex(header, k)] ELSE NONE]

RECURSIVE DictRows(_, _, _)
DictRows(header, lines, i) ==
    IF i > Len(lines) THEN << >>
    ELSE IF lines[i] = << >>
         THEN DictRows(header, lines, i + 1)          \* DictReader skips blank lines
         ELSE << DictRow(header, lines[i]) >> \o DictRows(header, lines, i + 1)

\* The reader as it would be if it took the header line for a data line too
DictReader_KeepHeader(f) ==
    IF Len(f.lines) = 0 THEN << >> ELSE DictRows(f.lines[1], f.lines, 1)

\* list(csv.DictReader(f)): the first line names the fields of the others
DictReader(f) ==
    IF Len(f.lines) = 0 THEN << >> ELSE DictRows(f.lines[1], f.lines, 2)

HeaderIsCurrent(header) ==
    /\ \A i \in 1..Len(REQUIRED_FIELDS) : REQUIRED_FIELDS[i] \in Range(header)
    /\ Len(header) = Len(REQUIRED_FIELDS)

\* The migration as it would be if it lost the rows it read
_migrate_columns_if_needed_DropRows(f) ==
    IF _read_header(f) = << >> \/ ~HeaderIsCurrent(_read_header(f))
    THEN CsvFile(<< REQUIRED_FIELDS >>)
    ELSE f

_migrate_columns_if_needed(f) ==
    LET header == _read_header(f)
        rows   == DictReader(f)
    IN  IF header = << >>
        THEN CsvFile(<< REQUIRED_FIELDS >>)
        ELSE IF HeaderIsCurrent(header)
        THEN f
        ELSE CsvFile(<< REQUIRED_FIELDS >> \o [i \in 1..Len(rows) |-> WriteRow(rows[i])])

ensure_data_dir(f) ==
    IF ~f.exists
    THEN CsvFile(<< REQUIRED_FIELDS >>)
    ELSE _migrate_columns_if_needed(f)

\* The append as it would be if the file were opened for writing, not appending
append_submission_Overwrite(f, row) == CsvFile(<< WriteRow(row) >>)

\* The file after append_submission(row)
append_submission(f, row) ==
    LET g == ensure_data_dir(f)
    IN  CsvFile(Append(g.lines, WriteRow(row)))

\* The list read_submissions returns; the file it leaves is ensure_data_dir(f)
read_submissions(f) == DictReader(ensure_data_dir(f))

----------------------------------------------------------------------------
(* utils/assignments.py: the assignment store *)

\* int(datetime.utcnow().timestamp()): whole seconds
EpochSeconds(t) == t \div TicksPerSecond

\* f"{user}-{pallet_id}-{seconds}": users carry no hyphen, so the string
\* determines the three parts and is modelled by them
AssignmentId(user, pallet_id, t) ==
    [user |-> user, pallet_id |-> pallet_id, ts |-> EpochSeconds(t)]

NoId == [user |-> "", pallet_id |-> "", ts |-> 0 - 1]

\* isoformat as it would be if it wrote whole seconds only
isoformat_Seconds(t) == [iso |-> (t \div TicksPerSecond) * TicksPerSecond]

\* datetime.isoformat and datetime.fromisoformat
isoformat(t) == [iso |-> t]

fromisoformat(str) == str.iso

\* Whether fromisoformat accepts the text: it raises ValueError otherwise
IsIsoText(str) == "iso" \in DOMAIN str

\* The table after create_assignment, the clock read at t1 for the id, at t2
\* for created_at and at t3 for locked_until
create_assignment(tbl, user, pallet_id, location, expected_qty, t1, t2, t3) ==
    DictSet(tbl, AssignmentId(user, pallet_id, t1),
            [ user         |-> user,
              pallet_id    |-> pallet_id,
              location     |-> location,
              expected_qty |-> expected_qty,
              created_at   |-> t2,
              locked_until |-> t3 + LockTicks,
              status       |-> "assigned",
              sku          |-> "",
              lot          |-> "" ])

\* The content save_all writes for a table
save_all(tbl) ==
    [ exists |-> TRUE,
      json   |-> TRUE,
      data   |-> [i \in 1..Len(tbl) |->
                    [ k |-> tbl[i].k,
                      v |-> [tbl[i].v EXCEPT !.created_at   = isoformat(@),
                                             !.locked_until = isoformat(@)] ]] ]

NoAssignFile == [exists |-> FALSE, json |-> TRUE, data |-> << >>]

\* A file json.load cannot parse into an object of records
GarbageFile == [exists |-> TRUE, json |-> FALSE, data |-> << >>]

\* The record with its two timestamps parsed
Decoded(entry) ==
    [ k |-> entry.k,
      v |-> [entry.v EXCEPT !.created_at   = fromisoformat(@),
                            !.locked_until = fromisoformat(@)] ]

Decodable(entry) == IsIsoText(entry.v.created_at) /\ IsIsoText(entry.v.locked_until)

\* load_all as it would be if it dropped only the records it cannot decode
load_all_SkipBad(file, tbl) ==
    IF ~file.exists THEN tbl
    ELSE IF ~file.json THEN << >>
    ELSE LET good == SelectSeq(file.data, Decodable)
         IN  [i \in 1..Len(good) |-> Decoded(good[i])]

\* The table load_all leaves: unchanged when there is no file, empty when
\* json.load or a fromisoformat raises (except Exception)
load_all(file, tbl) ==
    IF ~file.exists THEN tbl
    ELSE IF ~file.json THEN << >>
    ELSE IF \E i \in 1..Len(file.data) : ~Decodable(file.data[i]) THEN << >>
    ELSE [i \in 1..Len(file.data) |-> Decoded(file.data[i])]

\* The listing as it would be without the status filter
get_user_assignments_AnyStatus(user) ==
    SelectSeq(ASSIGNMENTS, LAMBDA e : e.v.user = user)

get_user_assignments(user) == SelectEntries(ASSIGNMENTS, user, 1)

get_user_assignment_ids(user) ==
    [i \in 1..Len(get_user_assignments(user)) |-> get_user_assignments(user)[i].k]

\* get(aid) is DictGet(ASSIGNMENTS, aid) when Found(aid), and None otherwise
Found(aid) == HasKey(ASSIGNMENTS, aid)

get(aid) == DictGet(ASSIGNMENTS, aid)

\* is_locked as it would be if the lock still held at locked_until itself
is_locked_Inclusive(assignment_id) ==
    Found(assignment_id) /\ now <= get(assignment_id).locked_until

is_locked(assignment_id) ==
    Found(assignment_id) /\ now < get(assignment_id).locked_until

\* complete as it would be if it honoured the lock: refused once it has run out
complete_WhileLocked(tbl, aid) ==
    IF HasKey(tbl, aid) /\ now < DictGet(tbl, aid).locked_until
    THEN [tbl EXCEPT ![IndexOf(tbl, aid)].v.status = "completed"]
    ELSE tbl

\* complete as it would be if it flipped the status
complete_Toggle(tbl, aid) ==
    IF HasKey(tbl, aid)
    THEN [tbl EXCEPT ![IndexOf(tbl, aid)].v.status =
                        IF @ = "completed" THEN "assigned" ELSE "completed"]
    ELSE tbl

\* The table after complete(aid)
complete(tbl, aid) ==
    IF HasKey(tbl, aid)
    THEN [tbl EXCEPT ![IndexOf(tbl, aid)].v.status = "completed"]
    ELSE tbl

\* The file after complete(aid) as it would be if save_all ran for any id
complete_file_SaveAlways(file, tbl, aid) == save_all(complete(tbl, aid))

\* The file after complete(aid): save_all runs only when the id is known
complete_file(file, tbl, aid) ==
    IF HasKey(tbl, aid) THEN save_all(complete(tbl, aid)) ELSE file

----------------------------------------------------------------------------
(* utils/mapping.py: the expected-quantity resolver *)

\* An optional value: None, or a value
PyNone == [none |-> TRUE]

Some(x) == [none |-> FALSE, val |-> x]

\* Cells of the inventory table: text, whole numbers, decimals (in tenths)
\* and the NaN of an empty cell
StrCell(text) == [t |-> "str", s |-> text]

IntCell(n) == [t |-> "int", n |-> n]

FloatCell(tenths) == [t |-> "float", tenths |-> tenths]

NanCell == [t |-> "nan"]

\* The text of a non-negative decimal with one fractional digit
DecimalText(tenths) == ToString(tenths \div 10) \o "." \o ToString(tenths % 10)

\* str(value), as astype(str) gives it cell by cell
astype_str(cell) ==
    CASE cell.t = "str"   -> cell.s
      [] cell.t = "int"   -> ToString(cell.n)
      [] cell.t = "float" -> DecimalText(cell.tenths)
      [] cell.t = "nan"   -> "nan"

\* The whole quantities up to MaxQty by their text, and the decimals (in
\* tenths) by theirs
IntTexts ==
    [text \in {ToString(n) : n \in 0..MaxQty} |->
       CHOOSE n \in 0..MaxQty : ToString(n) = text]

DecimalTexts ==
    [text \in {DecimalText(tenths) : tenths \in 0..(10 * MaxQty + 9)} |->
       CHOOSE tenths \in 0..(10 * MaxQty + 9) : DecimalText(tenths) = text]

\* The texts int() and float() accept, blanks around them allowed
IsIntText(text) == Strip(text) \in DOMAIN IntTexts

IntOfText(text) == IntTexts[Strip(text)]

IsFloatText(text) == IsIntText(text) \/ Strip(text) \in DOMAIN DecimalTexts

\* float(text), in tenths
TenthsOfText(text) ==
    IF IsIntText(text) THEN 10 * IntOfText(text) ELSE DecimalTexts[Strip(text)]

\* int(float(text)): the fraction is cut off
IntOfFloatText(text) == TenthsOfText(text) \div 10

\* _to_int as it would be if a fraction were rounded to the nearest integer
_to_int_Round(val) ==
    CASE val.t = "int"   -> Some(val.n)
      [] val.t = "float" -> Some((val.tenths + 5) \div 10)
      [] val.t = "nan"   -> PyNone
      [] val.t = "str"   -> IF IsIntText(val.s) THEN Some(IntOfText(val.s))
                            ELSE IF IsFloatText(val.s)
                                 THEN Some((TenthsOfText(val.s) + 5) \div 10)
                            ELSE PyNone

\* _to_int: int(val), else int(float(val)), else None
_to_int(val) ==
    CASE val.t = "int"   -> Some(val.n)
      [] val.t = "float" -> Some(val.tenths \div 10)
      [] val.t = "nan"   -> PyNone
      [] val.t = "str"   -> IF IsIntText(val.s) THEN Some(IntOfText(val.s))
                            ELSE IF IsFloatText(val.s) THEN Some(IntOfFloatText(val.s))
                            ELSE PyNone

\* dict.get(key): None for a missing key
DictGetOrNone(d, key) == IF HasKey(d, key) THEN DictGet(d, key) ELSE NONE

\* not col
Falsy(text) == text = NONE \/ text = ""

\* df.empty
IsEmptyFrame(df) == Len(df.rows) = 0 \/ Len(df.columns) = 0

\* The strategies as they would be with the pallet alone tried first
strategies_PalletFirst ==
    << <<"pallet_col">>,
       <<"pallet_col", "location_col">>,
       <<"location_col">>,
       <<"sku_col", "lot_col">>,
       <<"sku_col">> >>

strategies ==
    << <<"pallet_col", "location_col">>,
       <<"pallet_col">>,
       <<"location_col">>,
       <<"sku_col", "lot_col">>,
       <<"sku_col">> >>

NoFrame == [ok |-> FALSE, rows |-> << >>]

\* filt(d, fkey): None, or the rows of d whose cell in the mapped column
\* equals the lookup value, both as stripped text
filt(columns, rows, m, lookup, fkey) ==
    LET col == DictGetOrNone(m, fkey)
        val == DictGetOrNone(lookup, fkey)
    IN  IF Falsy(col) \/ col \notin Range(columns) \/ val \in {NONE, ""}
        THEN NoFrame
        ELSE [ok   |-> TRUE,
              rows |-> SelectSeq(rows, LAMBDA r : Strip(astype_str(r[col])) = Strip(val))]

\* The inner loop: sub = filt(sub, f) for each field, given up at the first None
RECURSIVE FilterBy(_, _, _, _, _, _)
FilterBy(columns, rows, m, lookup, fields, i) ==
    IF i > Len(fields) THEN [ok |-> TRUE, rows |-> rows]
    ELSE LET res == filt(columns, rows, m, lookup, fields[i])
         IN  IF ~res.ok THEN NoFrame
             ELSE FilterBy(columns, res.rows, m, lookup, fields, i + 1)

\* The outer loop from strategy i on; a KeyError on the expected column is
\* caught by the except clause
RECURSIVE TryStrategies(_, _, _, _)
TryStrategies(df, m, lookup, i) ==
    IF i > Len(strategies) THEN PyNone
    ELSE LET sub == FilterBy(df.columns, df.rows, m, lookup, strategies[i], 1)
         IN  IF sub.ok /\ sub.rows /= << >>
             THEN IF DictGet(m, "expected_col") \in Range(df.columns)
                  THEN _to_int(sub.rows[1][DictGet(m, "expected_col")])
                  ELSE PyNone
             ELSE TryStrategies(df, m, lookup, i + 1)

\* data/mapping.json: absent, or holding the dict json.dump wrote
NoMapFile == [exists |-> FALSE, val |-> << >>]

\* The file after save_mapping(mapping): whatever dict it is given
save_mapping(mapping) == [exists |-> TRUE, val |-> mapping]

\* load_mapping: the dict in the file, {} when there is no file
load_mapping(file) == IF file.exists THEN file.val ELSE << >>

\* get_expected_qty as it would be if it answered 0 where it has no table
get_expected_qty_ZeroDefault(df, mapping, lookup) ==
    IF df.none \/ IsEmptyFrame(df) THEN Some(0)
    ELSE IF mapping.none \/ mapping.val = << >> THEN PyNone
    ELSE IF Falsy(DictGetOrNone(mapping.val, "expected_col")) THEN PyNone
    ELSE IF lookup.none THEN PyNone
    ELSE TryStrategies(df, mapping.val, lookup.val, 1)

\* get_expected_qty; lookup.get on a lookup of None raises inside the try
get_expected_qty(df, mapping, lookup) ==
    IF df.none \/ IsEmptyFrame(df) THEN PyNone
    ELSE IF mapping.none \/ mapping.val = << >> THEN PyNone
    ELSE IF Falsy(DictGetOrNone(mapping.val, "expected_col")) THEN PyNone
    ELSE IF lookup.none THEN PyNone
    ELSE TryStrategies(df, mapping.val, lookup.val, 1)

----------------------------------------------------------------------------
(* app.py tab_dashboard: the frames shown *)

\* The characters of the location texts met in the model
CharsOf ==
    ("A-12"   :> <<"A", "-", "1", "2">>) @@
    ("B-07"   :> <<"B", "-", "0", "7">>) @@
    ("TUN-04" :> <<"T", "U", "N", "-", "0", "4">>) @@
    ("tun-04" :> <<"t", "u", "n", "-", "0", "4">>) @@
    (""       :> << >>)

\* str.upper as it would be if it left the text as it is
str_upper_Identity(chars) == chars

\* str.upper, on the letters met in the model
str_upper(chars) ==
    [i \in 1..Len(chars) |->
       CASE chars[i] = "t" -> "T"
         [] chars[i] = "u" -> "U"
         [] chars[i] = "n" -> "N"
         [] OTHER          -> chars[i]]

\* str.startswith
startswith(chars, prefix) ==
    Len(chars) >= Len(prefix) /\ SubSeq(chars, 1, Len(prefix)) = prefix

\* fillna("")
fillna(cell) == IF cell = NONE THEN "" ELSE cell

\* pd.to_numeric(errors="coerce") on one cell of text
pd_to_numeric(cell) ==
    IF IsIntText(cell) THEN IntCell(IntOfText(cell))
    ELSE IF IsFloatText(cell) THEN FloatCell(TenthsOfText(cell))
    ELSE NanCell

\* Lines 337-340: the two quantity columns made numeric
Coerced(rows) ==
    [i \in 1..Len(rows) |->
       [rows[i] EXCEPT !.expected_qty = pd_to_numeric(@),
                       !.counted_qty  = pd_to_numeric(@)]]

\* Lines 342-353: the user and issue filters, an empty selection filtering nothing
Filtered(rows, user_f, issue_f) ==
    SelectSeq(rows, LAMBDA r : /\ (user_f /= {} => r.user \in user_f)
                               /\ (issue_f /= {} => r.issue_type \in issue_f))

\* The discrepancies as they would be if only Match were hidden
nonMatches_KeepMissing(df) ==
    SelectSeq(df, LAMBDA r : fillna(r.issue_type) /= "Match")

\* Lines 357-361: disc, the rows that are neither Match nor MISSING
nonMatches(df) ==
    SelectSeq(df, LAMBDA r : fillna(r.issue_type) /= "Match" /\ fillna(r.issue_type) /= "MISSING")

\* Line 370: bulk, the discrepancies outside the TUN racks
bulkRows(disc) ==
    SelectSeq(disc, LAMBDA r : ~startswith(str_upper(CharsOf[fillna(r.location)]), <<"T", "U", "N">>))

GroupKey(r) == <<r.location, r.actual_pallet, r.sku, r.lot>>

\* Lines 373-383: one group per key of groupby(dropna=False), with its size
\* and the rows of bulk the mask selects (the order of the groups is left out)
bulkDiscrepancies(bulk) ==
    { [key     |-> key,
       size    |-> Cardinality({i \in 1..Len(bulk) : GroupKey(bulk[i]) = key}),
       members |-> SelectSeq(bulk, LAMBDA r : GroupKey(r) = key)]
      : key \in {GroupKey(bulk[i]) : i \in 1..Len(bulk)} }

\* What one run of tab_dashboard computes from the rows read
tab_dashboard(rows, user_f, issue_f) ==
    IF rows = << >>
    THEN [ran |-> TRUE, rows |-> rows, user_f |-> {}, issue_f |-> {},
          df |-> << >>, disc |-> << >>, bulk |-> << >>, groups |-> {}]
    ELSE LET df   == Filtered(Coerced(rows), user_f, issue_f)
             disc == nonMatches(df)
             bulk == bulkRows(disc)
         IN  [ran |-> TRUE, rows |-> rows, user_f |-> user_f, issue_f |-> issue_f,
              df |-> df, disc |-> disc, bulk |-> bulk,
              groups |-> bulkDiscrepancies(bulk)]

----------------------------------------------------------------------------
(* The clock *)

Op(name, aid) ==
    [op |-> name, aid |-> aid, rep |-> lastOp.op = name /\ lastOp.aid = aid]

\* The clock stays within MaxNow ticks of 0 or of one lock duration
InWindow(t) == t % LockTicks <= MaxNow /\ t \div LockTicks <= 1

\* Time passes by one tick
Tick ==
    /\ InWindow(now + 1)
    /\ now' = now + 1
    /\ lastOp' = Op("tick", NoId)
    /\ UNCHANGED viewVars
    /\ UNCHANGED <<ASSIGNMENTS, assignFile, created, pc, sess, subFile, appended, lastRead>>

\* Time passes by one lock duration
LockElapse ==
    /\ InWindow(now + LockTicks)
    /\ now' = now + LockTicks
    /\ lastOp' = Op("elapse", NoId)
    /\ UNCHANGED viewVars
    /\ UNCHANGED <<ASSIGNMENTS, assignFile, created, pc, sess, subFile, appended, lastRead>>

\* Time passes until one second short of one lock duration
WaitNearLock ==
    /\ now <= MaxNow
    /\ now' = now + LockTicks - TicksPerSecond
    /\ lastOp' = Op("wait", NoId)
    /\ UNCHANGED viewVars
    /\ UNCHANGED <<ASSIGNMENTS, assignFile, created, pc, sess, subFile, appended, lastRead>>

\* Time passes by one second, around the end of a lock
WaitSecond ==
    /\ now >= LockTicks - TicksPerSecond
    /\ now < LockTicks + MaxNow + MaxDrift
    /\ now' = now + TicksPerSecond
    /\ lastOp' = Op("second", NoId)
    /\ UNCHANGED viewVars
    /\ UNCHANGED <<ASSIGNMENTS, assignFile, created, pc, sess, subFile, appended, lastRead>>

----------------------------------------------------------------------------
(* Operations of the assignment store *)

Create(user, pallet_id, location, expected_qty) ==
    /\ Len(created) < MaxCreates
    /\ \E d1 \in 0..MaxDrift, d2 \in 0..MaxDrift :
          /\ InWindow(now + d1 + d2)
          /\ ASSIGNMENTS' = create_assignment(ASSIGNMENTS, user, pallet_id, location,
                                              expected_qty, now, now + d1, now + d1 + d2)
          /\ now' = now + d1 + d2
    /\ assignFile' = save_all(ASSIGNMENTS')
    /\ created' = Append(created, AssignmentId(user, pallet_id, now))
    /\ lastOp' = Op("create", NoId)
    /\ UNCHANGED viewVars
    /\ UNCHANGED <<pc, sess, subFile, appended, lastRead>>

PalletInputs   == {"P100", " P100 ", ""}

\* The texts the form is given when blank ones are among them
BlankInputs    == {"P100", "", " "}
LocationInputs == {"A-12"}

\* app.py tab_assignments, the create button: a missing field is only warned
\* about, otherwise create_assignment gets the stripped texts
CreateClick(assignee, pallet_id, location, expected) ==
    /\ Len(created) < MaxAssign
    /\ IF assignee = "" \/ pallet_id = "" \/ location = ""
       THEN UNCHANGED <<ASSIGNMENTS, assignFile, now, created>>
       ELSE /\ \E d1 \in 0..MaxDrift, d2 \in 0..MaxDrift :
                 /\ InWindow(now + d1 + d2)
                 /\ ASSIGNMENTS' = create_assignment(ASSIGNMENTS, assignee, Strip(pallet_id),
                                                     Strip(location), expected,
                                                     now, now + d1, now + d1 + d2)
                 /\ now' = now + d1 + d2
            /\ assignFile' = save_all(ASSIGNMENTS')
            /\ created' = Append(created, AssignmentId(assignee, Strip(pallet_id), now))
    /\ lastOp' = Op("click", [assignee |-> assignee, pallet_id |-> pallet_id,
                               location |-> location])
    /\ UNCHANGED viewVars
    /\ UNCHANGED <<pc, sess, subFile, appended, lastRead>>

UnknownId == [user |-> "Alex", pallet_id |-> "P999", ts |-> 0]

NoSel == [user |-> "", aid |-> NoId, a |-> [status |-> "none"]]

Complete(aid) ==
    /\ ASSIGNMENTS' = complete(ASSIGNMENTS, aid)
    /\ assignFile' = complete_file(assignFile, ASSIGNMENTS, aid)
    /\ lastOp' = Op("complete", aid)
    /\ UNCHANGED viewVars
    /\ UNCHANGED <<now, created, pc, sess, subFile, appended, lastRead>>

\* Process start: assignments.py line 8 and load_all, app.py line 254
Restart ==
    /\ ASSIGNMENTS' = load_all(assignFile, << >>)
    /\ subFile' = ensure_data_dir(subFile)
    /\ pc' = [s \in Sessions |-> "idle"]
    /\ sess' = [s \in Sessions |-> NoSel]
    /\ lastOp' = Op("restart", NoId)
    /\ UNCHANGED viewVars
    /\ UNCHANGED <<assignFile, now, created, appended, lastRead>>

----------------------------------------------------------------------------
(* app.py tab_my_assignments: one run of the script per session *)

CountedInputs == {45}
IssueInputs   == {"Short"}

\* str(int)
Str(n) == ToString(n)

\* _local_timestamp_str: the clock formatted to the second
_local_timestamp_str == "ts" \o ToString(EpochSeconds(now))

\* Lines 472-480: pairs = get_user_assignments(user); aid, a = pairs[idx]
Select(s) ==
    /\ pc[s] \in {"idle", "done"}
    /\ \E user \in Users :
         LET pairs == get_user_assignments(user)
         IN  /\ pairs /= << >>
             /\ \E idx \in 1..Len(pairs) :
                   sess' = [sess EXCEPT ![s] =
                              [user |-> user, aid |-> pairs[idx].k, a |-> pairs[idx].v]]
    /\ pc' = [pc EXCEPT ![s] = "selected"]
    /\ lastOp' = Op("select", NoId)
    /\ UNCHANGED viewVars
    /\ UNCHANGED <<ASSIGNMENTS, assignFile, now, created, subFile, appended, lastRead>>

\* The row as it would be with the count written as the expected quantity too
SubmissionRow_CountedAsExpected(s, counted_qty, issue_type) ==
    [ timestamp     |-> _local_timestamp_str,
      user          |-> sess[s].user,
      location      |-> sess[s].a.location,
      sku           |-> sess[s].a.sku,
      lot           |-> sess[s].a.lot,
      expected_qty  |-> Str(counted_qty),
      counted_qty   |-> Str(counted_qty),
      issue_type    |-> issue_type,
      actual_pallet |-> sess[s].a.pallet_id,
      note          |-> "" ]

SubmissionRow(s, counted_qty, issue_type) ==
    [ timestamp     |-> _local_timestamp_str,
      user          |-> sess[s].user,
      location      |-> sess[s].a.location,
      sku           |-> sess[s].a.sku,
      lot           |-> sess[s].a.lot,
      expected_qty  |-> Str(sess[s].a.expected_qty),
      counted_qty   |-> Str(counted_qty),
      issue_type    |-> issue_type,
      actual_pallet |-> sess[s].a.pallet_id,
      note          |-> "" ]

\* Lines 507-521: the submit button builds the row and appends it
SubmitAppend(s) ==
    /\ pc[s] = "selected"
    /\ \E counted_qty \in CountedInputs, issue_type \in IssueInputs :
          /\ subFile' = append_submission(subFile, SubmissionRow(s, counted_qty, issue_type))
          /\ appended' = Append(appended, SubmissionRow(s, counted_qty, issue_type))
    /\ pc' = [pc EXCEPT ![s] = "appended"]
    /\ lastOp' = Op("submit", NoId)
    /\ UNCHANGED viewVars
    /\ UNCHANGED <<ASSIGNMENTS, assignFile, now, created, sess, lastRead>>

\* Line 521 raises (the file cannot be written): the except clause shows the
\* error and the run ends without reaching A.complete
SubmitAppendFails(s) ==
    /\ pc[s] = "selected"
    /\ pc' = [pc EXCEPT ![s] = "idle"]
    /\ lastOp' = Op("appendfail", sess[s].aid)
    /\ UNCHANGED viewVars
    /\ UNCHANGED <<ASSIGNMENTS, assignFile, now, created, sess, subFile, appended, lastRead>>

\* Line 523: A.complete(aid), then the run ends
SubmitComplete(s) ==
    /\ pc[s] = "appended"
    /\ ASSIGNMENTS' = complete(ASSIGNMENTS, sess[s].aid)
    /\ assignFile' = complete_file(assignFile, ASSIGNMENTS, sess[s].aid)
    /\ pc' = [pc EXCEPT ![s] = "done"]
    /\ lastOp' = Op("complete", sess[s].aid)
    /\ UNCHANGED viewVars
    /\ UNCHANGED <<now, created, sess, subFile, appended, lastRead>>

----------------------------------------------------------------------------
(* Operations of the submission log *)

EnsureSchema ==
    /\ subFile' = ensure_data_dir(subFile)
    /\ lastOp' = Op("ensure", NoId)
    /\ UNCHANGED viewVars
    /\ UNCHANGED <<ASSIGNMENTS, assignFile, now, created, pc, sess, appended, lastRead>>

AppendRow(row) ==
    /\ Len(appended) < MaxAppends
    /\ subFile' = append_submission(subFile, row)
    /\ appended' = Append(appended, row)
    /\ lastOp' = Op("append", NoId)
    /\ UNCHANGED viewVars
    /\ UNCHANGED <<ASSIGNMENTS, assignFile, now, created, pc, sess, lastRead>>

ReadAll ==
    /\ subFile' = ensure_data_dir(subFile)
    /\ lastRead' = read_submissions(subFile)
    /\ lastOp' = Op("read", NoId)
    /\ UNCHANGED viewVars
    /\ UNCHANGED <<ASSIGNMENTS, assignFile, now, created, pc, sess, appended>>

ISSUE_TYPE_OPTIONS == {"Match", "Over", "Short", "Misplaced", "Damaged", "Other"}

\* Selections of the two multiselects
UserFilters  == {{}, {"Alex"}}
IssueFilters == {{}, {"Match", "Short"}}

\* One run of tab_dashboard
Dashboard(user_f, issue_f) ==
    /\ subFile' = ensure_data_dir(subFile)
    /\ dash' = tab_dashboard(read_submissions(subFile), user_f, issue_f)
    /\ lastOp' = Op("dashboard", NoId)
    /\ UNCHANGED <<call, result, mapFile, tmpFile, mig>>
    /\ UNCHANGED <<ASSIGNMENTS, assignFile, now, created, pc, sess, appended, lastRead>>

----------------------------------------------------------------------------
(* Submissions shown on the dashboard *)

DashRow(user, location, lot, issue_type) ==
    [ timestamp     |-> "ts0",
      user          |-> user,
      location      |-> location,
      sku           |-> "S1",
      lot           |-> lot,
      expected_qty  |-> "50",
      counted_qty   |-> "45",
      issue_type    |-> issue_type,
      actual_pallet |-> "P100",
      note          |-> "" ]

\* Two counts of one pallet, one with the lot left empty, counts in the TUN
\* racks, a Match, a MISSING, and a row without issue_type and location
DashRows ==
    { DashRow("Alex", "A-12",   "L1", "Short"),
      DashRow("Aldo", "A-12",   "L1", "Over"),
      DashRow("Alex", "A-12",   "",   "Short"),
      DashRow("Alex", "TUN-04", "L1", "Short"),
      DashRow("Aldo", "tun-04", "L1", "Damaged"),
      DashRow("Alex", "A-12",   "L1", "Match"),
      DashRow("Aldo", "B-07",   "L1", "MISSING"),
      [ user |-> "Alex", sku |-> "S1", lot |-> "L1", actual_pallet |-> "P100" ] }

----------------------------------------------------------------------------
(* Assignment files found at process start *)

\* A table of n assignments created at time 0
SampleTable(n) ==
    [i \in 1..n |->
       [ k |-> AssignmentId("Alex", "P100", (i - 1) * TicksPerSecond),
         v |-> [ user |-> "Alex", pallet_id |-> "P100", location |-> "A-12",
                 expected_qty |-> 50, created_at |-> (i - 1) * TicksPerSecond,
                 locked_until |-> (i - 1) * TicksPerSecond + LockTicks,
                 status |-> IF i = 1 THEN "completed" ELSE "assigned",
                 sku |-> "", lot |-> "" ] ]]

\* The file of a table, the created_at of record i not an ISO date
WithBadDate(file, i) ==
    [file EXCEPT !.data[i].v.created_at = [text |-> "yesterday"]]

\* Absent, written by save_all, unparseable, or with one undecodable record
StartFiles ==
    {NoAssignFile, GarbageFile}
      \cup {save_all(SampleTable(n)) : n \in 0..MaxStored}
      \cup UNION {{WithBadDate(save_all(SampleTable(n)), i) : i \in 1..n} : n \in 1..MaxStored}

----------------------------------------------------------------------------
(* Calls of get_expected_qty *)

Resolve ==
    /\ ~call.made
    /\ result' = get_expected_qty(call.df, call.mapping, call.lookup)
    /\ call' = [call EXCEPT !.made = TRUE]
    /\ lastOp' = Op("resolve", NoId)
    /\ UNCHANGED <<dash, mapFile, tmpFile, mig>>
    /\ UNCHANGED <<ASSIGNMENTS, assignFile, now, created, pc, sess, subFile, appended, lastRead>>

Entry(key, value) == [k |-> key, v |-> value]

InvColumns == <<"Pallet", "Loc", "Sku", "Lot", "Qty">>

InvRow(pallet, loc, sku, lot, qty) ==
    [c \in Range(InvColumns) |->
       CASE c = "Pallet" -> StrCell(pallet)
         [] c = "Loc"    -> StrCell(loc)
         [] c = "Sku"    -> StrCell(sku)
         [] c = "Lot"    -> StrCell(lot)
         [] c = "Qty"    -> qty]

\* Rows of an inventory sheet: for the lookup P100 / A-12 / S1 / L1 the
\* first matches on pallet and location, the second on the pallet only,
\* the third on the location only, the fourth again on both with a padded
\* cell, the fifth on SKU and lot, the last on the SKU only
InvRows ==
    { InvRow("P100",   "A-12", "S1", "L1", IntCell(50)),
      InvRow("P100",   "B-07", "S1", "L2", IntCell(MaxQty)),
      InvRow("P200",   "A-12", "S2", "L1", StrCell("60")),
      InvRow(" P100 ", "A-12", "S2", "L2", FloatCell(457)),
      InvRow("P300",   "C-01", "S1", "L1", StrCell("abc")),
      InvRow("P300",   "C-01", "S1", "L3", NanCell) }

RECURSIVE SeqsUpTo(_, _)
SeqsUpTo(set, n) ==
    IF n = 0 THEN {<< >>}
    ELSE LET shorter == SeqsUpTo(set, n - 1)
         IN  shorter \cup {Append(q, x) : q \in shorter, x \in set}

Frame(columns, rows) == [none |-> FALSE, columns |-> columns, rows |-> rows]

\* No table, a sheet without columns, and sheets of up to MaxInvRows rows
FrameInputs ==
    {PyNone, Frame(<< >>, << >>)}
      \cup {Frame(InvColumns, rows) : rows \in SeqsUpTo(InvRows, MaxInvRows)}

Mapping(expected, pallet, location, sku, lot) ==
    Some(<< Entry("sheet_name", "Sheet1"), Entry("header_row", "0"),
            Entry("expected_col", expected), Entry("location_col", location),
            Entry("pallet_col", pallet), Entry("sku_col", sku), Entry("lot_col", lot) >>)

\* No mapping, an empty one, one without the expected_col key, and mappings
\* with columns unset (None or "") or naming a column the sheet lacks
MappingInputs ==
    { PyNone,
      Some(<< >>),
      Some(<< Entry("pallet_col", "Pallet") >>),
      Mapping("Qty",  "Pallet", "Loc", "Sku", "Lot"),
      Mapping("Qty",  NONE,     "Loc", "Sku", "Lot"),
      Mapping("Qty",  "",       NONE,  "Sku", "Lot"),
      Mapping("Qty",  "Gone",   "Loc", "Sku", NONE),
      Mapping("Qty",  NONE,     NONE,  "Sku", NONE),
      Mapping(NONE,   "Pallet", "Loc", "Sku", "Lot"),
      Mapping("",     "Pallet", "Loc", "Sku", "Lot"),
      Mapping("Gone", "Pallet", "Loc", "Sku", "Lot") }

Lookup(pallet, location, sku, lot) ==
    Some(<< Entry("pallet_col", pallet), Entry("location_col", location),
            Entry("sku_col", sku), Entry("lot_col", lot) >>)

\* No lookup, one with the pallet key only, and lookups of four values
LookupInputs ==
    {PyNone, Some(<< Entry("pallet_col", "P100") >>)}
      \cup {Lookup(pallet, location, sku, lot) :
               pallet \in {"", "P100", " P100 ", "P999"}, location \in {"", "A-12"},
               sku \in {"", NONE, "S1"}, lot \in {"", "L1"}}

----------------------------------------------------------------------------
(* The column mapping: saving it and using it *)

\* save_mapping called with a dict
SaveMapping(mapping) ==
    /\ mapFile' = save_mapping(mapping)
    /\ lastOp' = Op("save", [mapping |-> mapping])
    /\ UNCHANGED <<call, result, dash, tmpFile, mig>>
    /\ UNCHANGED <<ASSIGNMENTS, assignFile, now, created, pc, sess, subFile, appended, lastRead>>

\* selectbox value or None
OrNone(text) == IF text = "" THEN NONE ELSE text

\* app.py sidebar, the save button: expected_col is one of the sheet's
\* columns, the optional columns may be left at ""
SidebarSave(location_col, pallet_col, sku_col, lot_col, expected_col) ==
    LET mapping == << Entry("sheet_name", "Sheet1"), Entry("header_row", "0"),
                      Entry("location_col", OrNone(location_col)),
                      Entry("pallet_col", OrNone(pallet_col)),
                      Entry("sku_col", OrNone(sku_col)),
                      Entry("lot_col", OrNone(lot_col)),
                      Entry("expected_col", expected_col) >>
    IN  /\ mapFile' = save_mapping(mapping)
        /\ lastOp' = Op("save", [mapping |-> mapping])
        /\ UNCHANGED <<call, result, dash, tmpFile, mig>>
        /\ UNCHANGED <<ASSIGNMENTS, assignFile, now, created, pc, sess, subFile, appended, lastRead>>

\* The uploaded inventory sheet
InventorySheet ==
    Frame(InvColumns, << InvRow("P100", "A-12", "S1", "L1", IntCell(50)),
                         InvRow("P200", "B-07", "S1", "L2", StrCell("60")) >>)

\* app.py tab_assignments, the expected quantity looked up for the form
Autofill(pallet_id, location) ==
    /\ IF load_mapping(mapFile) /= << >>
       THEN /\ call' = [made |-> TRUE, df |-> InventorySheet,
                        mapping |-> Some(load_mapping(mapFile)),
                        lookup |-> Lookup(pallet_id, location, "", "")]
            /\ result' = get_expected_qty(call'.df, call'.mapping, call'.lookup)
       ELSE UNCHANGED <<call, result>>
    /\ lastOp' = Op("autofill", NoId)
    /\ UNCHANGED <<dash, mapFile, tmpFile, mig>>
    /\ UNCHANGED <<ASSIGNMENTS, assignFile, now, created, pc, sess, subFile, appended, lastRead>>

\* Dicts given to save_mapping
SavedMappings == {m.val : m \in MappingInputs \ {PyNone}}

----------------------------------------------------------------------------
(* utils/storage.py ensure_data_dir, one file operation at a time *)

\* No ensure_data_dir call in progress
NoMig == [pc |-> "idle", kind |-> "none", before |-> NoFile, rows |-> << >>,
          written |-> 0, failed |-> FALSE]

\* os.remove(tmp) in the finally clause, when the file still exists
os_remove(file) == NoFile

LogOps == <<ASSIGNMENTS, assignFile, now, created, pc, sess, appended, lastRead>>

\* The call starts: a missing file or one without a header row is opened for
\* writing (and so emptied); a current header ends the call; otherwise the
\* rows are to be read with the old header
MigBegin ==
    /\ mig.pc = "idle"
    /\ IF ~subFile.exists \/ _read_header(subFile) = << >>
       THEN /\ subFile' = CsvFile(<< >>)
            /\ mig' = [pc |-> "opened", kind |-> "reset", before |-> subFile,
                       rows |-> << >>, written |-> 0, failed |-> FALSE]
       ELSE IF HeaderIsCurrent(_read_header(subFile))
       THEN /\ subFile' = subFile
            /\ mig' = [NoMig EXCEPT !.kind = "current", !.before = subFile]
       ELSE /\ subFile' = subFile
            /\ mig' = [pc |-> "rows", kind |-> "migrate", before |-> subFile,
                       rows |-> << >>, written |-> 0, failed |-> FALSE]
    /\ lastOp' = Op("begin", NoId)
    /\ UNCHANGED <<call, result, dash, mapFile, tmpFile>>
    /\ UNCHANGED LogOps

\* rows = list(csv.DictReader(f)) under the old header
MigReadRows ==
    /\ mig.pc = "rows"
    /\ mig' = [mig EXCEPT !.pc = "read", !.rows = DictReader(subFile)]
    /\ lastOp' = Op("rows", NoId)
    /\ UNCHANGED <<call, result, dash, mapFile, subFile, tmpFile>>
    /\ UNCHANGED LogOps

\* Reading the rows raises (a field over the csv size limit, bytes that do
\* not decode): except Exception: rows = []
MigReadRowsFail ==
    /\ mig.pc = "rows"
    /\ mig' = [mig EXCEPT !.pc = "read", !.rows = << >>, !.failed = TRUE]
    /\ lastOp' = Op("norows", NoId)
    /\ UNCHANGED <<call, result, dash, mapFile, subFile, tmpFile>>
    /\ UNCHANGED LogOps

\* writer.writerow(REQUIRED_FIELDS) into the emptied file
MigWriteHeader ==
    /\ mig.pc = "opened"
    /\ subFile' = CsvFile(<< REQUIRED_FIELDS >>)
    /\ mig' = [mig EXCEPT !.pc = "idle"]
    /\ lastOp' = Op("header", NoId)
    /\ UNCHANGED <<call, result, dash, mapFile, tmpFile>>
    /\ UNCHANGED LogOps

\* tempfile.mkstemp: an empty temporary file next to the log
MigMkstemp ==
    /\ mig.pc = "read"
    /\ tmpFile' = CsvFile(<< >>)
    /\ mig' = [mig EXCEPT !.pc = "temp"]
    /\ lastOp' = Op("mkstemp", NoId)
    /\ UNCHANGED <<call, result, dash, mapFile, subFile>>
    /\ UNCHANGED LogOps

\* writeheader, then one writerow per row read
MigWriteTmp ==
    /\ mig.pc = "temp"
    /\ Len(tmpFile.lines) < 1 + Len(mig.rows)
    /\ tmpFile' = CsvFile(Append(tmpFile.lines,
                                  IF tmpFile.lines = << >> THEN REQUIRED_FIELDS
                                  ELSE WriteRow(mig.rows[Len(tmpFile.lines)])))
    /\ mig' = [mig EXCEPT !.written = Len(tmpFile.lines) + 1]
    /\ lastOp' = Op("write", NoId)
    /\ UNCHANGED <<call, result, dash, mapFile, subFile>>
    /\ UNCHANGED LogOps

\* os.replace(tmp, SUBMISSIONS_FILE)
MigReplace ==
    /\ mig.pc = "temp"
    /\ Len(tmpFile.lines) = 1 + Len(mig.rows)
    /\ subFile' = tmpFile
    /\ tmpFile' = NoFile
    /\ mig' = [mig EXCEPT !.pc = "finally"]
    /\ lastOp' = Op("replace", NoId)
    /\ UNCHANGED <<call, result, dash, mapFile>>
    /\ UNCHANGED LogOps

\* The finally clause: the temporary file is removed if it is still there
MigFinally ==
    /\ mig.pc = "finally"
    /\ tmpFile' = IF tmpFile.exists THEN os_remove(tmpFile) ELSE tmpFile
    /\ mig' = [mig EXCEPT !.pc = "idle"]
    /\ lastOp' = Op("finally", NoId)
    /\ UNCHANGED <<call, result, dash, mapFile, subFile>>
    /\ UNCHANGED LogOps

\* A file operation raises: mkstemp before the try, the writes and the
\* replace inside it, the header write into the emptied file
MigFail ==
    /\ mig.pc \in {"opened", "read", "temp"}
    /\ mig' = [mig EXCEPT !.pc = IF mig.pc = "temp" THEN "finally" ELSE "idle",
                          !.failed = TRUE]
    /\ lastOp' = Op("fail", NoId)
    /\ UNCHANGED <<call, result, dash, mapFile, subFile, tmpFile>>
    /\ UNCHANGED LogOps

----------------------------------------------------------------------------
(* Submissions files found at start, and rows given to append_submission *)

Without(names) == SelectSeq(REQUIRED_FIELDS, LAMBDA k : k \notin names)

\* Headers written by older versions: a subset of the current fields
OldHeaders ==
    { Without({"actual_pallet"}), Without({"actual_pallet", "note", "issue_type"}) }

\* The ten current names with sku and lot exchanged
PermutedHeader ==
    << "timestamp", "user", "location", "lot", "sku",
       "expected_qty", "counted_qty", "issue_type", "actual_pallet", "note" >>

\* Data line j under a header: every cell names its column and its line
SampleLine(header, j) == [i \in 1..Len(header) |-> header[i] \o "#" \o ToString(j)]

SampleFile(header, n) ==
    CsvFile(<< header >> \o [j \in 1..n |-> SampleLine(header, j)])

FullRow(tag) ==
    [k \in Range(REQUIRED_FIELDS) |-> k \o "@" \o tag]

PartialRow ==
    [k \in Range(Without({"actual_pallet", "note"})) |-> k \o "@p"]

ExtraRow ==
    [k \in Range(REQUIRED_FIELDS) \cup {"pallet_id"} |-> k \o "@x"]

RowInputs == {FullRow("a"), FullRow("b"), PartialRow, ExtraRow}

\* Absent, current header, or an older header
SchemaFiles ==
    {NoFile}
      \cup {SampleFile(REQUIRED_FIELDS, n) : n \in 0..1}
      \cup {SampleFile(h, n) : h \in OldHeaders, n \in 0..MaxOldRows}

\* Any header: also the permuted one, a blank first line, a first line that
\* cannot be decoded and a zero-byte file
AnyFiles ==
    SchemaFiles
      \cup {SampleFile(PermutedHeader, n) : n \in 0..1}
      \cup {CsvFile(<< >>), CsvFile(<< << >>, SampleLine(REQUIRED_FIELDS, 1) >>),
            CsvFile(<< << BadBytes >>, SampleLine(REQUIRED_FIELDS, 1) >>)}

----------------------------------------------------------------------------
(* Specifications *)

InitCore ==
    /\ ASSIGNMENTS = << >>
    /\ assignFile = NoAssignFile
    /\ now = 0
    /\ created = << >>
    /\ pc = [s \in Sessions |-> "idle"]
    /\ sess = [s \in Sessions |-> NoSel]
    /\ appended = << >>
    /\ lastRead = << >>
    /\ lastOp = [op |-> "init", aid |-> NoId, rep |-> FALSE]

\* No get_expected_qty call made and no dashboard run yet
NoCall == [made |-> FALSE]

NoDash == [ran |-> FALSE]

InitStore ==
    /\ InitCore
    /\ call = NoCall
    /\ result = PyNone
    /\ dash = NoDash
    /\ mapFile = NoMapFile
    /\ tmpFile = NoFile
    /\ mig = NoMig

\* The application after its first start in an empty data directory
Init ==
    /\ InitStore
    /\ subFile = ensure_data_dir(NoFile)

\* The assignment store alone
Next ==
    \/ \E user \in Users, pallet_id \in Pallets, location \in Locations, expected_qty \in Qtys :
          Create(user, pallet_id, location, expected_qty)
    \/ \E aid \in Keys(ASSIGNMENTS) \cup {UnknownId} : Complete(aid)
    \/ Restart
    \/ Tick

Spec == Init /\ [][Next]_vars

\* The application: the create form and the counters' sessions
NextApp ==
    \/ \E assignee \in Users, pallet_id \in PalletInputs, location \in LocationInputs,
          expected \in Qtys :
          CreateClick(assignee, pallet_id, location, expected)
    \/ LockElapse
    \/ \E s \in Sessions : Select(s)
    \/ \E s \in Sessions : SubmitAppend(s)
    \/ \E s \in Sessions : SubmitComplete(s)

SpecApp == Init /\ [][NextApp]_vars

\* Locations a supervisor may give when assigning a pallet
AssignLocations == {"A-12", "B-07"}

\* Creates by the supervisor and submits by the counters' sessions, the
\* append failing at times
NextSubmit ==
    \/ \E location \in AssignLocations, expected_qty \in Qtys :
          Create("Alex", "P100", location, expected_qty)
    \/ \E s \in Sessions : Select(s)
    \/ \E s \in Sessions : SubmitAppend(s)
    \/ \E s \in Sessions : SubmitAppendFails(s)
    \/ \E s \in Sessions : SubmitComplete(s)

SpecSubmit == Init /\ [][NextSubmit]_vars

\* The assignment store and the clock around the end of a lock
NextLock ==
    \/ \E user \in Users, pallet_id \in Pallets, location \in Locations, expected_qty \in Qtys :
          Create(user, pallet_id, location, expected_qty)
    \/ Tick
    \/ WaitNearLock
    \/ WaitSecond

SpecLock == Init /\ [][NextLock]_vars

\* Assigning, counting in one session, and the dashboard
NextFlow ==
    \/ \E assignee \in Users, pallet_id \in PalletInputs, location \in LocationInputs,
          expected \in Qtys :
          CreateClick(assignee, pallet_id, location, expected)
    \/ Select("s1")
    \/ SubmitAppend("s1")
    \/ SubmitComplete("s1")
    \/ \E user_f \in UserFilters, issue_f \in IssueFilters : Dashboard(user_f, issue_f)

SpecFlow == Init /\ [][NextFlow]_vars

\* The assignment store started on any assignments file
InitStart ==
    /\ assignFile \in StartFiles
    /\ ASSIGNMENTS = load_all(assignFile, << >>)
    /\ now = 0
    /\ created = << >>
    /\ pc = [s \in Sessions |-> "idle"]
    /\ sess = [s \in Sessions |-> NoSel]
    /\ subFile = ensure_data_dir(NoFile)
    /\ appended = << >>
    /\ lastRead = << >>
    /\ lastOp = [op |-> "init", aid |-> NoId, rep |-> FALSE]
    /\ call = NoCall
    /\ result = PyNone
    /\ dash = NoDash
    /\ mapFile = NoMapFile
    /\ tmpFile = NoFile
    /\ mig = NoMig

NextStart ==
    \/ \E location \in Locations, expected_qty \in Qtys :
          Create("Alex", "P100", location, expected_qty)
    \/ \E aid \in Keys(ASSIGNMENTS) : Complete(aid)
    \/ Restart

SpecStart == InitStart /\ [][NextStart]_vars

\* The create form with blank texts among its inputs, and the store
NextForm ==
    \/ \E assignee \in Users, pallet_id \in BlankInputs, location \in LocationInputs,
          expected \in Qtys :
          CreateClick(assignee, pallet_id, location, expected)
    \/ \E aid \in Keys(ASSIGNMENTS) : Complete(aid)
    \/ Restart
    \/ Tick

SpecForm == Init /\ [][NextForm]_vars

\* The column mapping: saved by a caller or through the sidebar, and used
NextMapping ==
    \/ \E mapping \in SavedMappings : SaveMapping(mapping)
    \/ \E location_col \in {"", "Loc"}, pallet_col \in {"", "Pallet"},
          expected_col \in Range(InvColumns) :
          SidebarSave(location_col, pallet_col, "", "", expected_col)
    \/ \E pallet_id \in {"", "P100"}, location \in {"", "A-12"} :
          Autofill(pallet_id, location)

SpecMapping == Init /\ [][NextMapping]_vars

\* One call of get_expected_qty on any table, mapping and lookup
InitResolve ==
    /\ InitCore
    /\ subFile = NoFile
    /\ call \in [made : {FALSE}, df : FrameInputs, mapping : MappingInputs,
                  lookup : LookupInputs]
    /\ result = PyNone
    /\ dash = NoDash
    /\ mapFile = NoMapFile
    /\ tmpFile = NoFile
    /\ mig = NoMig

NextResolve == Resolve

SpecResolve == InitResolve /\ [][NextResolve]_vars

NextLog ==
    \/ EnsureSchema
    \/ \E row \in RowInputs : AppendRow(row)
    \/ ReadAll

\* The submission log alone, from a file with the current or an older schema
InitLog == InitStore /\ subFile \in SchemaFiles

SpecLog == InitLog /\ [][NextLog]_vars

\* The submission log alone, from any file
InitLogAny == InitStore /\ subFile \in AnyFiles

SpecLogAny == InitLogAny /\ [][NextLog]_vars

\* ensure_data_dir step by step on any file, with failures
NextMigrate ==
    \/ MigBegin
    \/ MigReadRows
    \/ MigReadRowsFail
    \/ MigWriteHeader
    \/ MigMkstemp
    \/ MigWriteTmp
    \/ MigReplace
    \/ MigFinally
    \/ MigFail

SpecMigrate == InitLogAny /\ [][NextMigrate]_vars

\* The submission log alone, from an absent file
InitLogFresh == InitStore /\ subFile = NoFile

SpecLogFresh == InitLogFresh /\ [][NextLog]_vars

\* The submission log from an absent file, and the dashboard
NextDash ==
    \/ \E row \in DashRows : AppendRow(row)
    \/ \E user_f \in UserFilters, issue_f \in IssueFilters : Dashboard(user_f, issue_f)

SpecDash == InitLogFresh /\ [][NextDash]_vars

----------------------------------------------------------------------------
(* Claims about the assignment store *)

NoDuplicates(seq) == \A i, j \in 1..Len(seq) : i /= j => seq[i] /= seq[j]

\* C1: every create returns an id no earlier create returned, so the table
\* holds as many assignments as there were create calls.
C1_IdsUnique ==
    /\ NoDuplicates(created)
    /\ Len(ASSIGNMENTS) = Len(created)

\* C2: an assignment id seen with status completed is never seen again with
\* status assigned, whatever create, complete and restart steps follow.
C2_StatusNeverReverts ==
    [][ \A i \in 1..Len(ASSIGNMENTS) :
          ASSIGNMENTS[i].v.status = "completed" =>
             \A j \in 1..Len(ASSIGNMENTS') :
                ASSIGNMENTS'[j].k = ASSIGNMENTS[i].k => ASSIGNMENTS'[j].v.status /= "assigned"
      ]_vars

\* C3: right after create, get(id) is the record passed in, assigned, with
\* empty sku and lot, and locked_until is exactly created_at plus the lock time.
C3_CreateThenGet ==
    lastOp.op = "create" =>
        LET id == created[Len(created)]
        IN  /\ Found(id)
            /\ get(id).status = "assigned"
            /\ get(id).sku = ""
            /\ get(id).lot = ""
            /\ get(id).user = id.user
            /\ get(id).pallet_id = id.pallet_id
            /\ get(id).location \in Locations
            /\ get(id).expected_qty \in Qtys
            /\ get(id).locked_until = get(id).created_at + LockTicks

----------------------------------------------------------------------------
(* Claims about the counters' sessions *)

InRun(s) == pc[s] \in {"appended", "done"}

\* The rows of the log that carry the assignment of session s
RowsFor(s) ==
    LET rows == DictReader(subFile)
    IN  { i \in 1..Len(rows) :
            /\ rows[i]["user"] = sess[s].user
            /\ rows[i]["location"] = sess[s].a.location
            /\ rows[i]["expected_qty"] = Str(sess[s].a.expected_qty)
            /\ rows[i]["actual_pallet"] = sess[s].a.pallet_id }

StatusOf(tbl, aid) == IF HasKey(tbl, aid) THEN DictGet(tbl, aid).status ELSE "absent"

\* C4: the lock is never consulted.  A session that has selected an assignment
\* can always submit, locked or not; when two sessions have selected the same
\* assignment and both have submitted, the log holds a row of each; and the
\* complete call of a submission leaves the assignment completed.
C4_LockAdvisory ==
    /\ [](\A s \in Sessions :
            /\ pc[s] = "selected" => ENABLED SubmitAppend(s)
            /\ pc[s] = "appended" => ENABLED SubmitComplete(s))
    /\ [](\A s1, s2 \in Sessions :
            (s1 /= s2 /\ InRun(s1) /\ InRun(s2) /\ sess[s1].aid = sess[s2].aid)
               => Cardinality(RowsFor(s1)) >= 2)
    /\ [][ \A s \in Sessions :
             (pc[s] = "appended" /\ pc'[s] = "done")
                => StatusOf(ASSIGNMENTS', sess[s].aid) = "completed" ]_vars

\* Both sessions selected the same assignment and submitted it, the second
\* after the lock had run out
C4_Witness ==
    /\ pc["s1"] = "done" /\ pc["s2"] = "done"
    /\ sess["s1"].aid = sess["s2"].aid
    /\ Len(DictReader(subFile)) = 2
    /\ DictReader(subFile)[1]["timestamp"] /= DictReader(subFile)[2]["timestamp"]
    /\ StatusOf(ASSIGNMENTS, sess["s1"].aid) = "completed"
    /\ ~is_locked(sess["s1"].aid)

----------------------------------------------------------------------------
(* Claims about the submission log *)

Required == Range(REQUIRED_FIELDS)

IsPrefix(a, b) == Len(a) <= Len(b) /\ \A i \in 1..Len(a) : a[i] = b[i]

\* C5: after ensure_data_dir has run on a file whose header row is not empty,
\* the header row is the ten current names in their order.
C5_HeaderCanonical ==
    [][ (subFile.exists /\ _read_header(subFile) /= << >>)
           => _read_header(subFile') = REQUIRED_FIELDS ]_vars

\* The row read back agrees with the row appended on every current field the
\* appended row had, and is that very row when it had exactly the ten fields
RowAgrees(read, row) ==
    /\ \A k \in DOMAIN row \cap Required : k \in DOMAIN read /\ read[k] = row[k]
    /\ DOMAIN row = Required => read = row

\* C6: from an absent log, read_submissions returns as many rows as were
\* appended, the i-th being the i-th appended.
C6_ReadIsAppendOrder ==
    lastOp.op = "read" =>
        /\ Len(lastRead) = Len(appended)
        /\ \A i \in 1..Len(appended) : RowAgrees(lastRead[i], appended[i])

C6_Witness ==
    /\ lastOp.op = "read"
    /\ Len(lastRead) >= 2
    /\ lastRead[1] = FullRow("a")
    /\ lastRead[2] = FullRow("b")

OlderSchema(f) ==
    /\ f.exists
    /\ _read_header(f) /= << >>
    /\ Range(_read_header(f)) \subseteq Required
    /\ Range(_read_header(f)) /= Required

----------------------------------------------------------------------------
(* Claims about complete and the listing *)

\* C9: a second complete(id) right after the first changes neither the table
\* nor the file, and the assignment is completed.
C9_CompleteIdempotent ==
    [][ ( /\ lastOp.op = "complete"
          /\ lastOp'.op = "complete"
          /\ lastOp'.aid = lastOp.aid
          /\ Found(lastOp.aid) )
           => /\ ASSIGNMENTS' = ASSIGNMENTS
              /\ assignFile' = assignFile
              /\ StatusOf(ASSIGNMENTS', lastOp.aid) = "completed" ]_vars

\* complete was called twice in a row on a stored assignment
C9_Witness ==
    /\ lastOp.op = "complete"
    /\ lastOp.rep
    /\ Found(lastOp.aid)

\* The place of an id in the order of first creation
FirstCreated(id) ==
    CHOOSE i \in 1..Len(created) :
        created[i] = id /\ \A j \in 1..(i - 1) : created[j] /= id

\* C10: the listing for a user holds exactly the stored assignments of that
\* user with status assigned, each once, in the order they were first created;
\* a completed assignment is in no listing and get still returns it.
C10_ListActive ==
    /\ \A user \in Users :
          LET r == get_user_assignments(user)
          IN  /\ \A i \in 1..Len(r) :
                    /\ Found(r[i].k)
                    /\ r[i].v = get(r[i].k)
                    /\ r[i].v.user = user
                    /\ r[i].v.status = "assigned"
              /\ \A aid \in Keys(ASSIGNMENTS) :
                    (get(aid).user = user /\ get(aid).status = "assigned")
                       => Cardinality({i \in 1..Len(r) : r[i].k = aid}) = 1
              /\ \A i, j \in 1..Len(r) :
                    i < j => FirstCreated(r[i].k) < FirstCreated(r[j].k)
    /\ (lastOp.op = "complete" /\ lastOp.aid \in Range(created))
          => /\ Found(lastOp.aid)
             /\ get(lastOp.aid).status = "completed"
             /\ \A user \in Users :
                   \A i \in 1..Len(get_user_assignments(user)) :
                      get_user_assignments(user)[i].k /= lastOp.aid

\* An assignment was completed while another of the same user stays listed
C10_Witness ==
    /\ lastOp.op = "complete"
    /\ Found(lastOp.aid)
    /\ Len(get_user_assignments(get(lastOp.aid).user)) = 1
    /\ FirstCreated(lastOp.aid) = 1

----------------------------------------------------------------------------
(* Claims about the lock *)

\* C11: for an existing assignment is_locked is true exactly when the clock
\* is strictly before locked_until: it is true from the create up to one
\* second before created_at + 20 minutes, and false from one second after
\* created_at + 20 minutes on (the clock reads of one create call lie less
\* than a second apart).
C11_LockedUntilExpiry ==
    \A aid \in Keys(ASSIGNMENTS) :
       /\ is_locked(aid) <=> now < get(aid).locked_until
       /\ now <= get(aid).created_at + LockTicks - TicksPerSecond => is_locked(aid)
       /\ now >= get(aid).created_at + LockTicks + TicksPerSecond => ~is_locked(aid)

\* One second after created_at + 20 minutes, of an assignment whose
\* locked_until was read later than its created_at
C11_Witness ==
    \E aid \in Keys(ASSIGNMENTS) :
       /\ now = get(aid).created_at + LockTicks + TicksPerSecond
       /\ get(aid).locked_until > get(aid).created_at + LockTicks
       /\ ~is_locked(aid)

----------------------------------------------------------------------------
(* Claims about the expected-quantity resolver *)

\* The call had a table with rows, a mapping whose expected_col names one of
\* its columns, and a lookup
Resolvable ==
    /\ ~call.df.none /\ ~IsEmptyFrame(call.df)
    /\ ~call.mapping.none /\ ~call.lookup.none
    /\ HasKey(call.mapping.val, "expected_col")
    /\ DictGet(call.mapping.val, "expected_col") \in Range(call.df.columns)

\* The strategies of the specification: the fields each one matches on
StrategyFields ==
    << {"pallet_col", "location_col"}, {"pallet_col"}, {"location_col"},
       {"sku_col", "lot_col"}, {"sku_col"} >>

Unset(d, key) == ~HasKey(d, key) \/ DictGet(d, key) \in {NONE, ""}

Skipped(i) ==
    \E f \in StrategyFields[i] : Unset(call.mapping.val, f) \/ Unset(call.lookup.val, f)

RowMatches(r, f) ==
    /\ DictGet(call.mapping.val, f) \in Range(call.df.columns)
    /\ Strip(astype_str(r[DictGet(call.mapping.val, f)])) = Strip(DictGet(call.lookup.val, f))

MatchingRows(i) ==
    SelectSeq(call.df.rows, LAMBDA r : \A f \in StrategyFields[i] : RowMatches(r, f))

Usable(i) == ~Skipped(i) /\ MatchingRows(i) /= << >>

\* C12: the resolver returns the quantity of the first strategy, in the order
\* pallet and location, pallet, location, SKU and lot, SKU, that is not
\* skipped (a mapping column unset or a lookup value empty) and matches a
\* row, whatever the order of the rows; and none when there is no such
\* strategy.
C12_FirstStrategyWins ==
    (call.made /\ Resolvable) =>
       IF \E i \in 1..5 : Usable(i)
       THEN LET first == CHOOSE i \in 1..5 : Usable(i) /\ \A j \in 1..(i - 1) : ~Usable(j)
            IN  result = _to_int(MatchingRows(first)[1][DictGet(call.mapping.val, "expected_col")])
       ELSE result = PyNone

\* A pallet-only row before a pallet-and-location row: the latter wins
C12_Witness ==
    /\ call.made /\ Resolvable
    /\ Len(call.df.rows) = 2
    /\ Usable(1) /\ Usable(2)
    /\ MatchingRows(2)[1] /= MatchingRows(1)[1]
    /\ result = Some(50)

----------------------------------------------------------------------------
(* Claims about the flow from assignment to dashboard *)

\* One assignment was created, its counter submitted once and no one else
\* did, and the dashboard has just run unfiltered
OneCountShown(s) ==
    /\ Len(created) = 1 /\ Len(appended) = 1
    /\ pc[s] = "done" /\ sess[s].aid = created[1]
    /\ sess[s].user = created[1].user
    /\ lastOp.op = "dashboard" /\ dash.user_f = {} /\ dash.issue_f = {}

\* C13: from an empty store and log, after a create with expected quantity
\* 50 and that counter's submit of 45 with issue Short, the log has one row
\* with the texts "50" and "45", the discrepancies frame has exactly that
\* row (its quantities made numbers by the dashboard), and the assignment
\* is completed.
C13_CountReachesDashboard ==
    \A s \in Sessions :
       OneCountShown(s) =>
          /\ Len(dash.rows) = 1
          /\ dash.rows[1].expected_qty = "50" /\ dash.rows[1].counted_qty = "45"
          /\ dash.rows[1].issue_type = "Short"
          /\ Len(dash.disc) = 1
          /\ dash.disc[1].expected_qty = IntCell(50) /\ dash.disc[1].counted_qty = IntCell(45)
          /\ dash.disc[1].user = sess[s].user
          /\ get(created[1]).status = "completed"

C13_Witness ==
    \E s \in Sessions :
       /\ OneCountShown(s)
       /\ created[1] = AssignmentId("Alex", "P100", 0)
       /\ Len(dash.disc) = 1
       /\ get(created[1]).status = "completed"

----------------------------------------------------------------------------
(* Claims about the create form *)

\* C14: a create whose assignee, pallet_id or location is empty, or empty
\* once trimmed, is refused and leaves the in-memory table and the
\* persisted file as they were.
C14_EmptyFieldsRejected ==
    [][ ( /\ lastOp'.op = "click"
          /\ \/ Strip(lastOp'.aid.assignee) = ""
             \/ Strip(lastOp'.aid.pallet_id) = ""
             \/ Strip(lastOp'.aid.location) = "" )
        => (ASSIGNMENTS' = ASSIGNMENTS /\ assignFile' = assignFile) ]_vars

----------------------------------------------------------------------------
(* Claims about persistence of the assignment store *)

\* C15: after any sequence of create and complete calls the persisted file
\* holds what the in-memory table holds: loading it (a restart) gives a
\* table with the same ids in the same order and the same fields, statuses
\* and timestamps.
C15_FileMirrorsTable ==
    load_all(assignFile, << >>) = ASSIGNMENTS

\* A restart after creates and a complete, with a timestamp off the second
C15_Witness ==
    /\ lastOp.op = "restart"
    /\ Len(ASSIGNMENTS) = 2
    /\ ASSIGNMENTS[1].v.status = "completed"
    /\ ASSIGNMENTS[2].v.status = "assigned"
    /\ ASSIGNMENTS[2].v.created_at % TicksPerSecond /= 0

\* An assignments file that cannot be loaded: not parseable, or with a
\* record whose timestamp is not an ISO date
Unloadable(file) ==
    \/ ~file.json
    \/ \E i \in 1..Len(file.data) :
          \/ "iso" \notin DOMAIN file.data[i].v.created_at
          \/ "iso" \notin DOMAIN file.data[i].v.locked_until

\* C16: at process start the table is empty when the file is absent, and
\* reset to empty as a whole when the file cannot be parsed or any one of
\* its records cannot be decoded; otherwise it holds the file's records.
C16_StartNeverFails ==
    lastOp.op \in {"init", "restart"} =>
       /\ ~assignFile.exists => ASSIGNMENTS = << >>
       /\ (assignFile.exists /\ Unloadable(assignFile)) => ASSIGNMENTS = << >>
       /\ (assignFile.exists /\ ~Unloadable(assignFile)) =>
             /\ Len(ASSIGNMENTS) = Len(assignFile.data)
             /\ \A i \in 1..Len(ASSIGNMENTS) : ASSIGNMENTS[i].k = assignFile.data[i].k

\* A restart on a file whose second record alone cannot be decoded
C16_Witness ==
    /\ lastOp.op = "restart"
    /\ assignFile.exists /\ assignFile.json
    /\ Len(assignFile.data) = 2
    /\ "iso" \in DOMAIN assignFile.data[1].v.created_at
    /\ "iso" \notin DOMAIN assignFile.data[2].v.created_at
    /\ ASSIGNMENTS = << >>

----------------------------------------------------------------------------
(* Claims about the dashboard *)

Hidden == {"Match", "MISSING"}

\* The positions in the frame of the rows that are no Match and no MISSING
Shown(df) == {i \in 1..Len(df) : df[i].issue_type \notin Hidden}

\* C17: the discrepancies frame holds exactly the submissions whose
\* issue_type is neither "Match" nor "MISSING", in log order.
C17_NonMatches ==
    lastOp.op = "dashboard" =>
       /\ Len(dash.disc) = Cardinality(Shown(dash.df))
       /\ \A i \in Shown(dash.df) :
             dash.disc[Cardinality({j \in Shown(dash.df) : j <= i})] = dash.df[i]
       /\ (dash.user_f = {} /\ dash.issue_f = {}) =>
             /\ Len(dash.df) = Len(appended)
             /\ \A i \in 1..Len(appended) :
                   \A k \in {"user", "location", "issue_type", "lot"} :
                      dash.df[i][k] = Get(appended[i], k)

\* A MISSING before a discrepancy: the second row alone is shown
C17_Witness ==
    /\ lastOp.op = "dashboard"
    /\ dash.user_f = {} /\ dash.issue_f = {}
    /\ Len(dash.df) = 2
    /\ dash.df[1].issue_type = "MISSING" /\ dash.df[2].issue_type = "Short"
    /\ dash.disc = << dash.df[2] >>

\* The location texts of the model that start with TUN in some letter case
TunLocations == {"TUN-04", "tun-04"}

GroupsOf(r) == {g \in dash.groups : r \in Range(g.members)}

\* C18: the bulk groups partition the discrepancies whose location does not
\* start with TUN in any letter case by (location, actual_pallet, sku, lot):
\* a TUN row is in no group, every other discrepancy is in exactly one, two
\* rows share a group exactly when the four fields are equal, an empty field
\* being a value like any other, and the size of a group counts its rows.
C18_BulkGroups ==
    lastOp.op = "dashboard" =>
       /\ \A r \in Range(dash.disc) :
             IF r.location \in TunLocations
             THEN GroupsOf(r) = {}
             ELSE Cardinality(GroupsOf(r)) = 1
       /\ \A g \in dash.groups :
             /\ g.members /= << >>
             /\ Range(g.members) \subseteq Range(dash.disc)
             /\ g.size = Cardinality({i \in 1..Len(dash.disc) :
                                       /\ dash.disc[i].location \notin TunLocations
                                       /\ GroupKey(dash.disc[i]) = g.key})
             /\ g.size = Len(g.members)
       /\ \A r1, r2 \in Range(dash.disc) :
             (r1.location \notin TunLocations /\ r2.location \notin TunLocations) =>
                (GroupsOf(r1) = GroupsOf(r2)
                   <=> /\ r1.location = r2.location /\ r1.actual_pallet = r2.actual_pallet
                       /\ r1.sku = r2.sku /\ r1.lot = r2.lot)

\* A count in a lower-case TUN rack next to a count with an empty lot: the
\* latter alone is grouped, under a key with the empty lot
C18_Witness ==
    /\ lastOp.op = "dashboard"
    /\ Len(dash.disc) = 2
    /\ \E r \in Range(dash.disc) : r.location = "tun-04"
    /\ dash.groups = {[key |-> <<"A-12", "P100", "S1", "">>, size |-> 1,
                        members |-> SelectSeq(dash.disc, LAMBDA r : r.location = "A-12")]}

----------------------------------------------------------------------------
(* Claims about append and read together *)

\* C19: whatever file ensure_data_dir accepted, after append_submission the
\* last row read_submissions returns has exactly the ten current fields,
\* each with the value the appended row had for it, or "" if it had none.
C19_AppendThenRead ==
    lastOp.op = "append" =>
       LET rows == read_submissions(subFile)
           row  == appended[Len(appended)]
       IN  /\ rows /= << >>
           /\ DOMAIN rows[Len(rows)] = Required
           /\ \A k \in Required : rows[Len(rows)][k] = Get(row, k)

----------------------------------------------------------------------------
(* Claims about the resolver's failure cases *)

\* The call gives the resolver nothing to answer from: no table or an empty
\* one, no mapping or an empty one, expected_col unset or naming a column
\* the table lacks, or no strategy matching a row
NothingToResolve ==
    \/ call.df.none \/ IsEmptyFrame(call.df)
    \/ call.mapping.none \/ call.mapping.val = << >>
    \/ Unset(call.mapping.val, "expected_col")
    \/ DictGet(call.mapping.val, "expected_col") \notin Range(call.df.columns)
    \/ (~call.lookup.none /\ \A i \in 1..5 : ~Usable(i))

\* C20: the resolver raises nothing and leaves its arguments as they were;
\* it returns an integer or none, and none whenever the table or the mapping
\* is absent or empty, expected_col is unset or names a column the table
\* lacks, or no strategy matches.
C20_ResolveNeverRaises ==
    /\ [](call.made =>
            /\ result \in {PyNone} \cup {Some(n) : n \in 0..MaxQty}
            /\ NothingToResolve => result = PyNone)
    /\ [][ /\ call'.df = call.df
           /\ call'.mapping = call.mapping
           /\ call'.lookup = call.lookup ]_vars

\* A row matches the lookup, but expected_col names a column the table lacks
C20_Witness ==
    /\ call.made
    /\ ~call.df.none /\ ~call.mapping.none /\ ~call.lookup.none
    /\ HasKey(call.mapping.val, "expected_col")
    /\ DictGet(call.mapping.val, "expected_col") = "Gone"
    /\ Usable(1)
    /\ result = PyNone

----------------------------------------------------------------------------
(* Claims about the column mapping *)

ValidMapping(m) == HasKey(m, "expected_col") /\ DictGet(m, "expected_col") \notin {NONE, ""}

\* C21: a save of a mapping whose expected_col is missing or empty leaves the
\* persisted mapping as it was, so the mapping load_mapping returns is
\* always empty or has a non-empty expected_col.
C21_MappingValid ==
    /\ [](load_mapping(mapFile) = << >> \/ ValidMapping(load_mapping(mapFile)))
    /\ [][ (lastOp'.op = "save" /\ ~ValidMapping(lastOp'.aid.mapping))
             => mapFile' = mapFile ]_vars

----------------------------------------------------------------------------
(* Claims about the migration's file operations *)

\* C22: while a migration runs the submissions file holds the whole old
\* content or the whole migrated content; up to the rename it is the old
\* content, and a migration that failed before the rename ends with the old
\* content in place and no temporary file left.
C22_MigrationAtomic ==
    mig.kind = "migrate" =>
       /\ subFile \in {mig.before, _migrate_columns_if_needed(mig.before)}
       /\ mig.pc \in {"rows", "read", "temp"} => subFile = mig.before
       /\ mig.pc = "idle" =>
             /\ ~tmpFile.exists
             /\ mig.failed => subFile = mig.before
             /\ ~mig.failed => subFile = _migrate_columns_if_needed(mig.before)

----------------------------------------------------------------------------
(* Claims about what create and complete leave alone *)

\* C23: a stored assignment is never deleted and is changed only by complete:
\* complete(id) changes nothing but the status of id, and create leaves every
\* assignment that was already stored as it was, field by field.
C23_OnlyCompleteMutates ==
    [][ /\ lastOp'.op = "complete" =>
             \A k \in Keys(ASSIGNMENTS) :
                /\ HasKey(ASSIGNMENTS', k)
                /\ k /= lastOp'.aid => DictGet(ASSIGNMENTS', k) = DictGet(ASSIGNMENTS, k)
                /\ k = lastOp'.aid =>
                      [DictGet(ASSIGNMENTS', k) EXCEPT !.status = "assigned"]
                         = [DictGet(ASSIGNMENTS, k) EXCEPT !.status = "assigned"]
        /\ lastOp'.op = "create" =>
             \A k \in Keys(ASSIGNMENTS) :
                /\ HasKey(ASSIGNMENTS', k)
                /\ DictGet(ASSIGNMENTS', k) = DictGet(ASSIGNMENTS, k) ]_vars

----------------------------------------------------------------------------
(* Claims about the value the resolver returns *)

\* The strategy that matched: the first that is not skipped and has a row
FirstUsable == CHOOSE i \in 1..5 : Usable(i) /\ \A j \in 1..(i - 1) : ~Usable(j)

\* The expected-quantity cell of the first row, in table order, that the
\* matched strategy selects
FirstCell == MatchingRows(FirstUsable)[1][DictGet(call.mapping.val, "expected_col")]

\* A cell that is an integer or the text of one
WholeCell(cell) == cell.t = "int" \/ (cell.t = "str" /\ IsIntText(cell.s))

\* A cell that is a number with a fraction or the text of one
FractionCell(cell) ==
    cell.t = "float" \/ (cell.t = "str" /\ ~IsIntText(cell.s) /\ IsFloatText(cell.s))

\* C24: once a strategy has matched, the result is fixed by the first row
\* it matches in table order: that row's expected value as an integer (an
\* integer as it is, a fraction cut off at the point), and none when the
\* value is no number, even if a later row or a later strategy has one.
C24_FirstRowDecides ==
    (call.made /\ Resolvable /\ \E i \in 1..5 : Usable(i)) =>
       /\ WholeCell(FirstCell) =>
             result = Some(IF FirstCell.t = "int" THEN FirstCell.n
                           ELSE IntOfText(FirstCell.s))
       /\ FractionCell(FirstCell) =>
             /\ ~result.none
             /\ LET tenths == IF FirstCell.t = "float" THEN FirstCell.tenths
                              ELSE TenthsOfText(FirstCell.s)
                IN  result.val * 10 <= tenths /\ tenths < (result.val + 1) * 10
       /\ (~WholeCell(FirstCell) /\ ~FractionCell(FirstCell)) => result = PyNone

\* The first matching row holds no number, the second one does, and a later
\* strategy matches too: the result is none
C24_Witness ==
    /\ call.made /\ Resolvable
    /\ \E i \in 1..5 : Usable(i)
    /\ Len(MatchingRows(FirstUsable)) = 2
    /\ ~WholeCell(FirstCell) /\ ~FractionCell(FirstCell)
    /\ WholeCell(MatchingRows(FirstUsable)[2][DictGet(call.mapping.val, "expected_col")])
    /\ \E j \in (FirstUsable + 1)..5 : Usable(j)
    /\ result = PyNone

----------------------------------------------------------------------------
(* Claims about complete and ids it does not know *)

\* C25: complete(id) with an id that is not in the table changes nothing:
\* the table and the assignment file are the same before and after, and the
\* table has no assignment with that id afterwards.
C25_UnknownIdNoOp ==
    [][ (lastOp'.op = "complete" /\ ~HasKey(ASSIGNMENTS, lastOp'.aid)) =>
           /\ ASSIGNMENTS' = ASSIGNMENTS
           /\ assignFile' = assignFile
           /\ ~HasKey(ASSIGNMENTS', lastOp'.aid) ]_vars

\* complete was called with an unknown id while an assignment was stored
C25_Witness ==
    /\ lastOp.op = "complete" /\ lastOp.aid = UnknownId
    /\ ~HasKey(ASSIGNMENTS, UnknownId)
    /\ \E k \in Keys(ASSIGNMENTS) : get(k).status = "assigned"
    /\ assignFile = save_all(ASSIGNMENTS)

----------------------------------------------------------------------------
(* Claims about a submissions file without a header *)

\* The file has no first row, a blank one, or cannot be read
HeaderMissing(f) == Len(f.lines) = 0 \/ f.lines[1] = << >> \/ Undecodable(f)

\* C26: ensure_data_dir on an existing file whose first row is missing or
\* empty (a zero-byte file, a blank first line, a file that cannot be read)
\* leaves a file of the current header and no data row: the rows that
\* followed are gone.
C26_HeaderlessReset ==
    (/\ mig.kind /= "none" /\ mig.pc = "idle" /\ ~mig.failed
     /\ mig.before.exists /\ HeaderMissing(mig.before))
       => subFile = CsvFile(<< REQUIRED_FIELDS >>)

\* A file with an undecodable first line and a data row was reset
C26_Witness ==
    /\ mig.kind = "reset" /\ mig.pc = "idle" /\ ~mig.failed
    /\ mig.before.exists /\ Undecodable(mig.before)
    /\ Len(mig.before.lines) = 2
    /\ subFile = CsvFile(<< REQUIRED_FIELDS >>)

----------------------------------------------------------------------------
(* Claims about the order of append and complete in a submit *)

\* The log has a row with the assignee, location and expected quantity of
\* the stored assignment k
HasLogRow(k) ==
    \E i \in 1..Len(read_submissions(subFile)) :
       LET row == read_submissions(subFile)[i]
       IN  /\ Get(row, "user") = get(k).user
           /\ Get(row, "location") = get(k).location
           /\ Get(row, "expected_qty") = Str(get(k).expected_qty)

\* C27: whatever the interleaving of creates and submits, every assignment
\* with status completed has a log row with its assignee, location and
\* expected quantity; and a submit whose append fails does not call complete
\* and leaves the assignment as it was.
C27_CompletedHasLogRow ==
    /\ [](\A k \in Keys(ASSIGNMENTS) : get(k).status = "completed" => HasLogRow(k))
    /\ [][ lastOp'.op = "appendfail" =>
             ASSIGNMENTS' = ASSIGNMENTS /\ assignFile' = assignFile ]_vars

====
